---- MODULE Spec2Model ----
(***************************************************************************)
(* PulseView start-up / shut-down orchestrator: main() of main.cpp.        *)
(*                                                                         *)
(* The argument vector is read one element at a time by getopt_long; the   *)
(* model draws each element when getopt_long scans it.  GNU getopt_long    *)
(* permutes non-option elements to the end of argv, so after the loop      *)
(* argc - optind is the number of non-options seen (npos) and argv[argc-1] *)
(* is the last of them (last_pos).                                         *)
(*                                                                         *)
(* The three preprocessor switches ENABLE_DECODE, ENABLE_SIGNALS and       *)
(* ENABLE_STACKTRACE are fixed per build and drawn in Init.                *)
(* ENABLE_STACKTRACE is tested with #if at lines 67 and 212 and with       *)
(* #ifndef at lines 238 and 271, so it has three cases: not defined,       *)
(* defined as 0, defined as non-zero.  ANDROID is taken as not defined.    *)
(***************************************************************************)
EXTENDS Integers, Sequences, FiniteSets, TLC

\* ------------------------------------------------------------------ bounds

\* Longest argument vector (elements after argv[0]).
MaxArgs == 4

\* Largest value the event loop returns.
MaxExit == 2

\* -------------------------------------------------------- program constants

\* if (loglevel < 0 || loglevel > 5)
MinLogLevel == 0
MaxLogLevel == 5

\* --------------------------------------------------------------- the input

\* The argv elements the model draws from.
Tokens ==
    { "--help", "--version", "-l", "-d", "-D", "--no-scan", "-i", "-I",
      "-c", "-s", "5", "9", "a.bin", "b.bin" }

\* The argv elements drawn as the argument of an option: numbers, file
\* names and one element that looks like an option.
OptArgs == { "5", "9", "a.bin", "b.bin", "-c" }

\* How getopt_long reads an argv element: "--name" is a long option, "-x" a
\* short option, anything else a non-option.
Lex(tok) ==
    CASE tok = "--help"    -> [kind |-> "long",  name |-> "help"]
      [] tok = "--version" -> [kind |-> "long",  name |-> "version"]
      [] tok = "--no-scan" -> [kind |-> "long",  name |-> "no-scan"]
      [] tok = "-l"        -> [kind |-> "short", name |-> "l"]
      [] tok = "-d"        -> [kind |-> "short", name |-> "d"]
      [] tok = "-D"        -> [kind |-> "short", name |-> "D"]
      [] tok = "-i"        -> [kind |-> "short", name |-> "i"]
      [] tok = "-I"        -> [kind |-> "short", name |-> "I"]
      [] tok = "-c"        -> [kind |-> "short", name |-> "c"]
      [] tok = "-s"        -> [kind |-> "short", name |-> "s"]
      [] OTHER             -> [kind |-> "nonopt", name |-> tok]

\* atoi(optarg): the leading decimal digits, 0 when there are none.
Atoi(tok) ==
    CASE tok = "5" -> 5
      [] tok = "9" -> 9
      [] OTHER     -> 0

\* static const struct option long_options[]
long_options ==
    { [name |-> "help",          has_arg |-> FALSE, val |-> "h"],
      [name |-> "version",       has_arg |-> FALSE, val |-> "V"],
      [name |-> "loglevel",      has_arg |-> TRUE,  val |-> "l"],
      [name |-> "driver",        has_arg |-> TRUE,  val |-> "d"],
      [name |-> "input-file",    has_arg |-> TRUE,  val |-> "i"],
      [name |-> "input-format",  has_arg |-> TRUE,  val |-> "I"],
      [name |-> "clean",         has_arg |-> FALSE, val |-> "c"],
      [name |-> "log-to-stdout", has_arg |-> FALSE, val |-> "s"] }

\* The optstring "h?VDcsl:d:i:I:": option character -> takes an argument.
optstring ==
    { [name |-> "h", has_arg |-> FALSE], [name |-> "?", has_arg |-> FALSE],
      [name |-> "V", has_arg |-> FALSE], [name |-> "D", has_arg |-> FALSE],
      [name |-> "c", has_arg |-> FALSE], [name |-> "s", has_arg |-> FALSE],
      [name |-> "l", has_arg |-> TRUE],  [name |-> "d", has_arg |-> TRUE],
      [name |-> "i", has_arg |-> TRUE],  [name |-> "I", has_arg |-> TRUE] }

\* The table entry getopt_long matches an option element against, or the
\* empty set when the element is not a recognised option.
OptionEntry(tok) ==
    IF Lex(tok).kind = "long"
    THEN { [val |-> o.val, has_arg |-> o.has_arg] :
             o \in { x \in long_options : x.name = Lex(tok).name } }
    ELSE { [val |-> o.name, has_arg |-> o.has_arg] :
             o \in { x \in optstring : x.name = Lex(tok).name } }

IsOption(tok) == Lex(tok).kind # "nonopt"

\* ------------------------------------------------------------------- state

VARIABLES
    build,             \* [decode, signals, stacktrace]: the preprocessor switches
    pc,                \* position in main()
    scanned,           \* argv elements getopt_long has consumed
    npos,              \* non-options permuted to the end: argc - optind
    last_pos,          \* argv[argc - 1] once a non-option was seen
    cur,               \* the option element getopt_long has just matched
    c,                 \* const int c
    optarg,            \* char *optarg
    driver, open_file, open_file_format,
    restore_sessions, do_scan, do_logging,
    ret,               \* int ret
    context,           \* shared_ptr<sigrok::Context> context
    null_deref,        \* context was dereferenced while null
    sr_loglevel,       \* libsigrok's log level; -1: the library's default
    srd_loglevel,      \* libsigrokdecode's log level; -1: the default
    out,               \* what was written to stdout / stderr
    log,               \* what was written with qDebug / qWarning
    settings,          \* pv::GlobalSettings settings
    logging,           \* pv::logging
    fault_handlers,    \* signals whose handler is signal_handler
    srd,               \* libsigrokdecode: "none", "ready", "failed"
    srd_exits,         \* calls of srd_exit()
    device_manager,    \* pv::DeviceManager device_manager
    w,                 \* pv::MainWindow w
    sessions,          \* what the main window was asked to open
    handler,           \* the SignalHandler and what it is connected to
    sig_received,      \* signals delivered while the event loop runs
    close_requested,   \* a close() is posted to the main window
    exec_ret,          \* << r >> once a.exec() has returned r
    caught,            \* the catch clause at line 272 ran
    steps,             \* the life-cycle steps main has taken, in order
    signum,            \* signal_handler's argument while it runs, else ""
    fault_trace        \* what signal_handler did, in order

parse_vars == << scanned, npos, last_pos, cur, c, optarg >>
config_vars == << driver, open_file, open_file_format,
                  restore_sessions, do_scan, do_logging >>
vars == << build, pc, scanned, npos, last_pos, cur, c, optarg,
           driver, open_file, open_file_format,
           restore_sessions, do_scan, do_logging,
           ret, context, null_deref, sr_loglevel, srd_loglevel, out, log,
           settings, logging, fault_handlers, srd, srd_exits, device_manager,
           w, sessions, handler, sig_received, close_requested, exec_ret,
           caught, steps, signum, fault_trace >>

\* The state of the fault handling.
fault_vars == << signum, fault_trace >>

\* What the steps before line 201 leave alone.
life_vars == << settings, logging, fault_handlers, srd, srd_exits,
                device_manager, w, sessions, handler, sig_received,
                close_requested, exec_ret, caught, fault_vars >>

Builds ==
    [ decode : BOOLEAN, signals : BOOLEAN, stacktrace : {"undef", "0", "1"} ]

\* #if ENABLE_STACKTRACE
StacktraceOn == build.stacktrace = "1"
\* #ifndef ENABLE_STACKTRACE
TryCatchOn == build.stacktrace = "undef"

Init ==
    /\ build \in Builds
    /\ pc = "getopt"
    /\ scanned = 0
    /\ npos = 0
    /\ last_pos = ""
    /\ cur = ""
    /\ c = "none"
    /\ optarg = ""
    /\ driver = ""
    /\ open_file = ""
    /\ open_file_format = ""
    /\ restore_sessions = TRUE
    /\ do_scan = TRUE
    /\ do_logging = TRUE
    /\ ret = 0
    /\ context = "null"
    /\ null_deref = FALSE
    /\ sr_loglevel = -1
    /\ srd_loglevel = -1
    /\ out = {}
    /\ log = {}
    /\ settings = "none"
    /\ logging = "none"
    /\ fault_handlers = {}
    /\ srd = "none"
    /\ srd_exits = 0
    /\ device_manager = [state |-> "none", driver |-> "", do_scan |-> TRUE]
    /\ w = "none"
    /\ sessions = << >>
    /\ handler = [state |-> "none", connected |-> {}]
    /\ sig_received = {}
    /\ close_requested = FALSE
    /\ exec_ret = << >>
    /\ caught = FALSE
    /\ steps = << >>
    /\ signum = ""
    /\ fault_trace = << >>

\* ---------------------------------------------------------- option parsing

\* getopt_long skips a non-option element and moves it behind the options.
GetOptNonOption ==
    /\ pc = "getopt"
    /\ scanned < MaxArgs
    /\ \E tok \in Tokens :
         /\ ~IsOption(tok)
         /\ last_pos' = tok
    /\ scanned' = scanned + 1
    /\ npos' = npos + 1
    /\ UNCHANGED << build, pc, cur, c, optarg, config_vars, ret, context,
                    null_deref, sr_loglevel, srd_loglevel, out, log, life_vars, steps >>

\* getopt_long returns an option that takes no argument, or '?' for an
\* element that matches no entry.
GetOptFlag ==
    /\ pc = "getopt"
    /\ scanned < MaxArgs
    /\ \E tok \in Tokens :
         /\ IsOption(tok)
         /\ \A e \in OptionEntry(tok) : ~e.has_arg
         /\ cur' = tok
         /\ c' = IF OptionEntry(tok) = {} THEN "?"
                 ELSE (CHOOSE e \in OptionEntry(tok) : TRUE).val
    /\ optarg' = ""
    /\ scanned' = scanned + 1
    /\ pc' = "switch"
    /\ UNCHANGED << build, npos, last_pos, config_vars, ret, context,
                    null_deref, sr_loglevel, srd_loglevel, out, log, life_vars, steps >>

\* getopt_long returns an option that takes an argument: the next element,
\* whatever it looks like, becomes optarg.
GetOptWithArg ==
    /\ pc = "getopt"
    /\ scanned + 2 <= MaxArgs
    /\ \E tok \in Tokens, arg \in OptArgs :
         /\ IsOption(tok)
         /\ \E e \in OptionEntry(tok) : e.has_arg /\ c' = e.val
         /\ cur' = tok
         /\ optarg' = arg
    /\ scanned' = scanned + 2
    /\ pc' = "switch"
    /\ UNCHANGED << build, npos, last_pos, config_vars, ret, context,
                    null_deref, sr_loglevel, srd_loglevel, out, log, life_vars, steps >>

\* The option that takes an argument is the last element of argv:
\* getopt_long reports the missing argument by returning '?'.
GetOptMissingArg ==
    /\ pc = "getopt"
    /\ scanned < MaxArgs
    /\ \E tok \in Tokens :
         /\ IsOption(tok)
         /\ \E e \in OptionEntry(tok) : e.has_arg
         /\ cur' = tok
    /\ c' = "?"
    /\ optarg' = ""
    /\ scanned' = scanned + 1
    /\ pc' = "switch"
    /\ UNCHANGED << build, npos, last_pos, config_vars, ret, context,
                    null_deref, sr_loglevel, srd_loglevel, out, log, life_vars, steps >>

\* if (c == -1) break;
GetOptEnd ==
    /\ pc = "getopt"
    /\ pc' = "check_args"
    /\ cur' = ""
    /\ c' = "none"
    /\ optarg' = ""
    /\ UNCHANGED << build, scanned, npos, last_pos, config_vars, ret, context,
                    null_deref, sr_loglevel, srd_loglevel, out, log, life_vars, steps >>

\* An option error answered with a failure exit code.
UsageExitCode_ErrorFails(opt) == IF opt = "?" THEN 1 ELSE 0

\* return 0; for 'h' and for '?' alike.
UsageExitCode(opt) == 0

\* case 'h': case '?': usage(); return 0;
CaseHelp ==
    /\ pc = "switch"
    /\ c \in {"h", "?"}
    /\ out' = out \cup {"stdout:usage"}
    /\ ret' = UsageExitCode(c)
    /\ pc' = "ret_help"
    /\ UNCHANGED << build, parse_vars, config_vars, context, null_deref,
                    sr_loglevel, srd_loglevel, log, life_vars, steps >>

\* case 'V': fprintf(stdout, ...); return 0;
CaseVersion ==
    /\ pc = "switch"
    /\ c = "V"
    /\ out' = out \cup {"stdout:version"}
    /\ ret' = 0
    /\ pc' = "ret_version"
    /\ UNCHANGED << build, parse_vars, config_vars, context, null_deref,
                    sr_loglevel, srd_loglevel, log, life_vars, steps >>

\* if (loglevel < 0 || loglevel > 5)
LogLevelInvalid(loglevel) == loglevel < MinLogLevel \/ loglevel > MaxLogLevel

\* case 'l' with an invalid level: qDebug() << "ERROR: ..."; break;
CaseLogLevelInvalid ==
    /\ pc = "switch"
    /\ c = "l"
    /\ LogLevelInvalid(Atoi(optarg))
    /\ log' = log \cup {"ERROR: invalid log level spec."}
    /\ pc' = "getopt"
    /\ UNCHANGED << build, parse_vars, config_vars, ret, context, null_deref,
                    sr_loglevel, srd_loglevel, out, life_vars, steps >>

\* case 'l' with a valid level: context->set_log_level(...) through the
\* shared_ptr.  While context is still null this is undefined behaviour:
\* the call either faults (the process dies of SIGSEGV) or runs, since
\* the callee only forwards the level to libsigrok's global setting.
CaseLogLevel ==
    /\ pc = "switch"
    /\ c = "l"
    /\ ~LogLevelInvalid(Atoi(optarg))
    /\ null_deref' = (null_deref \/ context = "null")
    /\ \/ /\ context = "null"
          /\ pc' = "crashed"
          /\ UNCHANGED << sr_loglevel, srd_loglevel, log >>
       \/ /\ sr_loglevel' = Atoi(optarg)
          /\ srd_loglevel' = IF build.decode THEN Atoi(optarg) ELSE srd_loglevel
          /\ log' = IF Atoi(optarg) >= 5 THEN log \cup {"Settings:"} ELSE log
          /\ pc' = "getopt"
    /\ UNCHANGED << build, parse_vars, config_vars, ret, context, out,
                    life_vars, steps >>

\* case 'd': driver = optarg;
CaseDriver ==
    /\ pc = "switch"
    /\ c = "d"
    /\ driver' = optarg
    /\ pc' = "getopt"
    /\ UNCHANGED << build, parse_vars, open_file, open_file_format,
                    restore_sessions, do_scan, do_logging, ret, context,
                    null_deref, sr_loglevel, srd_loglevel, out, log, life_vars, steps >>

\* case 'D': do_scan = false;
CaseNoScan ==
    /\ pc = "switch"
    /\ c = "D"
    /\ do_scan' = FALSE
    /\ pc' = "getopt"
    /\ UNCHANGED << build, parse_vars, driver, open_file, open_file_format,
                    restore_sessions, do_logging, ret, context,
                    null_deref, sr_loglevel, srd_loglevel, out, log, life_vars, steps >>

\* A second -i ignored: the first occurrence wins.
CaseInputFile_FirstWins ==
    /\ pc = "switch"
    /\ c = "i"
    /\ open_file' = IF open_file = "" THEN optarg ELSE open_file
    /\ pc' = "getopt"
    /\ UNCHANGED << build, parse_vars, driver, open_file_format,
                    restore_sessions, do_scan, do_logging, ret, context,
                    null_deref, sr_loglevel, srd_loglevel, out, log, life_vars,
                    steps >>

\* case 'i': open_file = optarg;
CaseInputFile ==
    /\ pc = "switch"
    /\ c = "i"
    /\ open_file' = optarg
    /\ pc' = "getopt"
    /\ UNCHANGED << build, parse_vars, driver, open_file_format,
                    restore_sessions, do_scan, do_logging, ret, context,
                    null_deref, sr_loglevel, srd_loglevel, out, log, life_vars, steps >>

\* case 'I': open_file_format = optarg;
CaseInputFormat ==
    /\ pc = "switch"
    /\ c = "I"
    /\ open_file_format' = optarg
    /\ pc' = "getopt"
    /\ UNCHANGED << build, parse_vars, driver, open_file,
                    restore_sessions, do_scan, do_logging, ret, context,
                    null_deref, sr_loglevel, srd_loglevel, out, log, life_vars, steps >>

\* case 'c': restore_sessions = false;
CaseClean ==
    /\ pc = "switch"
    /\ c = "c"
    /\ restore_sessions' = FALSE
    /\ pc' = "getopt"
    /\ UNCHANGED << build, parse_vars, driver, open_file, open_file_format,
                    do_scan, do_logging, ret, context,
                    null_deref, sr_loglevel, srd_loglevel, out, log, life_vars, steps >>

\* case 's': do_logging = false;
CaseLogToStdout ==
    /\ pc = "switch"
    /\ c = "s"
    /\ do_logging' = FALSE
    /\ pc' = "getopt"
    /\ UNCHANGED << build, parse_vars, driver, open_file, open_file_format,
                    restore_sessions, do_scan, ret, context,
                    null_deref, sr_loglevel, srd_loglevel, out, log, life_vars, steps >>

\* The test of line 193 off by one: argc - optind > 2.
TooManyFiles_OffByOne == npos > 2

\* if (argc - optind > 1) { fprintf(stderr, ...); return 1; }
TooManyFiles == npos > 1

\* The non-option used only when -i gave no file.
FileToOpen_OptionWins(n, positional, given) ==
    IF n = 1 /\ given = "" THEN positional ELSE given

\* if (argc - optind == 1) open_file = argv[argc - 1];
FileToOpen(n, positional, given) == IF n = 1 THEN positional ELSE given

\* if (argc - optind > 1) ...; if (argc - optind == 1) open_file = argv[argc - 1];
CheckArgs ==
    /\ pc = "check_args"
    /\ IF TooManyFiles
       THEN /\ out' = out \cup {"stderr:Only one file can be opened."}
            /\ ret' = 1
            /\ pc' = "ret_usage"
            /\ UNCHANGED open_file
       ELSE /\ open_file' = FileToOpen(npos, last_pos, open_file)
            /\ pc' = "settings"
            /\ UNCHANGED << out, ret >>
    /\ steps' = Append(steps, "parse")
    /\ UNCHANGED << build, parse_vars, driver, open_file_format,
                    restore_sessions, do_scan, do_logging, context,
                    null_deref, sr_loglevel, srd_loglevel, log, life_vars >>

\* ------------------------------------------------------------- life cycle

\* What the steps from line 201 on leave alone.
parsed_vars == << build, parse_vars, config_vars, null_deref, sr_loglevel,
                  srd_loglevel, out, fault_vars >>

\* The step after libsigrok is initialised and the fault handlers are set.
AfterStacktrace == IF build.decode THEN "srd_init" ELSE "dm"

\* The step after context = sigrok::Context::create().
AfterCtxCreate == IF StacktraceOn THEN "stacktrace" ELSE AfterStacktrace

\* The signal handler set-up left out.
AfterSessions_NoSignals == "exec"

\* The step after the session set-up.
AfterSessions == IF build.signals THEN "signals" ELSE "exec"

\* The init failure only logged, the run going on with the device manager.
AfterSrdInitFailure_GoesOn == "dm"

\* The init failure falling through to the teardown instead of past it.
AfterSrdInitFailure_TearsDown == "srd_exit"

\* Where the break at line 231 leaves the do { } while (false).
AfterSrdInitFailure == "return"

\* The step after the try block (or, without it, after a.exec()).
AfterTry == IF build.decode THEN "srd_exit" ELSE "do_end"

\* The catch clause returning from main instead of falling through.
AfterCatch_SkipsTeardown == "do_end"

\* The step after the catch clause: it falls through to line 277.
AfterCatch == AfterTry

\* The step after ret = a.exec().
AfterExec == IF TryCatchOn THEN "try_end" ELSE AfterTry

\* pv::GlobalSettings settings; settings.set_defaults_where_needed();
Settings ==
    /\ pc = "settings"
    /\ settings' = "defaults_set"
    /\ pc' = "logging"
    /\ steps' = Append(steps, "settings")
    /\ UNCHANGED << parsed_vars, ret, context, log, logging, fault_handlers,
                    srd, srd_exits, device_manager, w, sessions, handler,
                    sig_received, close_requested, exec_ret, caught >>

\* if (do_logging) pv::logging.init();
Logging ==
    /\ pc = "logging"
    /\ logging' = IF do_logging THEN "init" ELSE logging
    /\ pc' = "ctx_create"
    /\ steps' = IF do_logging THEN Append(steps, "logging") ELSE steps
    /\ UNCHANGED << parsed_vars, ret, context, log, settings, fault_handlers,
                    srd, srd_exits, device_manager, w, sessions, handler,
                    sig_received, close_requested, exec_ret, caught >>

\* context = sigrok::Context::create(); pv::Session::sr_context = context;
\* create() throws when libsigrok fails to initialise; nothing catches it.
CtxCreate ==
    /\ pc = "ctx_create"
    /\ \/ /\ context' = "created"
          /\ pc' = AfterCtxCreate
       \/ /\ pc' = "terminated"
          /\ UNCHANGED context
    /\ steps' = IF context' = "created" THEN Append(steps, "context") ELSE steps
    /\ UNCHANGED << parsed_vars, ret, log, settings, logging, fault_handlers,
                    srd, srd_exits, device_manager, w, sessions, handler,
                    sig_received, close_requested, exec_ret, caught >>

\* ::signal(SIGSEGV, &signal_handler); ::signal(SIGABRT, &signal_handler);
InstallFaultHandlers ==
    /\ pc = "stacktrace"
    /\ fault_handlers' = {"SIGSEGV", "SIGABRT"}
    /\ log' = log \cup {"Stack trace file is"}
    /\ pc' = AfterStacktrace
    /\ steps' = Append(steps, "crash_dump")
    /\ UNCHANGED << parsed_vars, ret, context, settings, logging,
                    srd, srd_exits, device_manager, w, sessions, handler,
                    sig_received, close_requested, exec_ret, caught >>

\* if (srd_init(nullptr) != SRD_OK) { qDebug() << ...; break; }
\* srd_decoder_load_all();
SrdInit ==
    /\ pc = "srd_init"
    /\ \/ /\ srd' = "ready"
          /\ pc' = "dm"
          /\ UNCHANGED log
       \/ /\ srd' = "failed"
          /\ log' = log \cup {"ERROR: libsigrokdecode init failed."}
          /\ pc' = AfterSrdInitFailure
    /\ steps' = Append(steps, "srd_init")
    /\ UNCHANGED << parsed_vars, ret, context, settings, logging,
                    fault_handlers, srd_exits, device_manager, w, sessions,
                    handler, sig_received, close_requested, exec_ret, caught >>

\* pv::DeviceManager device_manager(context, driver, do_scan);
DeviceManagerCtor ==
    /\ pc = "dm"
    /\ device_manager' =
         [state |-> "alive", driver |-> driver, do_scan |-> do_scan]
    /\ pc' = "mw"
    /\ steps' = Append(steps, "device_manager")
    /\ UNCHANGED << parsed_vars, ret, context, log, settings, logging,
                    fault_handlers, srd, srd_exits, w, sessions, handler,
                    sig_received, close_requested, exec_ret, caught >>

\* pv::MainWindow w(device_manager); w.show();
MainWindowCtor ==
    /\ pc = "mw"
    /\ w' = "shown"
    /\ pc' = "sessions"
    /\ steps' = Append(steps, "main_window")
    /\ UNCHANGED << parsed_vars, ret, context, log, settings, logging,
                    fault_handlers, srd, srd_exits, device_manager, sessions,
                    handler, sig_received, close_requested, exec_ret, caught >>

\* if (restore_sessions) w.restore_sessions();
\* if (!open_file.empty()) w.add_session_with_file(open_file, open_file_format);
\* else w.add_default_session();
\* The restoration skipped when a file is given.
SessionCalls_FileOverrides(restore, file, format) ==
    IF file # ""
    THEN << [op |-> "add_session_with_file", file |-> file, format |-> format] >>
    ELSE IF restore
         THEN << [op |-> "restore_sessions", file |-> "", format |-> ""] >>
         ELSE << [op |-> "add_default_session", file |-> "", format |-> ""] >>

\* The default session added only when nothing else is opened.
SessionCalls_DefaultIfEmpty(restore, file, format) ==
    (IF restore THEN << [op |-> "restore_sessions", file |-> "", format |-> ""] >>
     ELSE << >>)
    \o
    (IF file # ""
     THEN << [op |-> "add_session_with_file", file |-> file, format |-> format] >>
     ELSE IF restore THEN << >>
     ELSE << [op |-> "add_default_session", file |-> "", format |-> ""] >>)

SessionCalls(restore, file, format) ==
    (IF restore THEN << [op |-> "restore_sessions", file |-> "", format |-> ""] >>
     ELSE << >>)
    \o
    (IF file # ""
     THEN << [op |-> "add_session_with_file", file |-> file, format |-> format] >>
     ELSE << [op |-> "add_default_session", file |-> "", format |-> ""] >>)

SessionSetup ==
    /\ pc = "sessions"
    /\ sessions' = SessionCalls(restore_sessions, open_file, open_file_format)
    /\ pc' = AfterSessions
    /\ steps' = Append(steps, "sessions")
    /\ UNCHANGED << parsed_vars, ret, context, log, settings, logging,
                    fault_handlers, srd, srd_exits, device_manager, w,
                    handler, sig_received, close_requested, exec_ret, caught >>

\* The second connect left out.
ConnectedToClose_IntOnly == {"int_received"}

\* QObject::connect(handler, SIGNAL(int_received()), &w, SLOT(close()));
\* QObject::connect(handler, SIGNAL(term_received()), &w, SLOT(close()));
ConnectedToClose == {"int_received", "term_received"}

\* The failed set-up ending the run.
AfterPrepareFailure_EndsRun == AfterExec

\* The step after the else branch at line 265: the event loop.
AfterPrepareFailure == "exec"

\* if (SignalHandler::prepare_signals()) { ... } else qWarning() << ...;
SignalsInstall ==
    /\ pc = "signals"
    /\ \/ /\ handler' = [state |-> "installed", connected |-> ConnectedToClose]
          /\ pc' = "exec"
          /\ UNCHANGED log
       \/ /\ handler' = [state |-> "failed", connected |-> {}]
          /\ log' = log \cup {"Could not prepare signal handler."}
          /\ pc' = AfterPrepareFailure
    /\ steps' = Append(steps, "signal_handler")
    /\ UNCHANGED << parsed_vars, ret, context, settings, logging,
                    fault_handlers, srd, srd_exits, device_manager, w,
                    sessions, sig_received, close_requested, exec_ret, caught >>

\* The Qt signal the SignalHandler emits for an OS signal.
Emitted(s) == IF s = "SIGINT" THEN "int_received" ELSE "term_received"

\* SIGINT or SIGTERM arrives while the event loop runs.  An installed
\* SignalHandler emits its Qt signal and the connected slot posts close()
\* to the main window; without a handler the default action ends the
\* process.
DeliverSignal ==
    /\ pc = "exec"
    /\ \E s \in {"SIGINT", "SIGTERM"} :
         IF handler.state = "installed"
         THEN /\ sig_received' = sig_received \cup {s}
              /\ close_requested' =
                   (close_requested \/ Emitted(s) \in handler.connected)
              /\ UNCHANGED pc
         ELSE /\ sig_received' = sig_received \cup {s}
              /\ pc' = "killed"
              /\ UNCHANGED close_requested
    /\ UNCHANGED << parsed_vars, steps, ret, context, log, settings, logging,
                    fault_handlers, srd, srd_exits, device_manager, w,
                    sessions, handler, exec_ret, caught >>

\* The return value dropped: ret keeps its initial value.
PendingExitCode_Dropped(r) == 0

\* ret = a.exec(): what main keeps of the event loop's return value r.
PendingExitCode(r) == r

\* The main window handles the posted close(): the last window closes and
\* the event loop returns 0.
WindowClose ==
    /\ pc = "exec"
    /\ close_requested
    /\ exec_ret' = << 0 >>
    /\ ret' = PendingExitCode(0)
    /\ pc' = AfterExec
    /\ steps' = Append(steps, "event_loop")
    /\ UNCHANGED << parsed_vars, context, log, settings, logging,
                    fault_handlers, srd, srd_exits, device_manager, w,
                    sessions, handler, sig_received, close_requested, caught >>

\* ret = a.exec(); the application quits with some exit code.
ExecReturn ==
    /\ pc = "exec"
    /\ \E r \in 0..MaxExit :
         /\ exec_ret' = << r >>
         /\ ret' = PendingExitCode(r)
    /\ pc' = AfterExec
    /\ steps' = Append(steps, "event_loop")
    /\ UNCHANGED << parsed_vars, context, log, settings, logging,
                    fault_handlers, srd, srd_exits, device_manager, w,
                    sessions, handler, sig_received, close_requested, caught >>

\* The destructors of w and device_manager, in that order.
Destroyed(obj) == IF obj = "none" THEN "none" ELSE "destroyed"

\* The catch clause reporting the failure in the exit code.
RetAfterCatch_Failure(r) == 1

\* catch (exception& e) { qDebug() << ...; }: ret is left as it is.
RetAfterCatch(r) == r

\* An exception leaves the device manager, the main window, the session
\* set-up, the signal handler set-up or the event loop.  Inside the try
\* block the stack is unwound and catch (exception& e) logs it; without
\* the try block nothing catches it.
Throw ==
    /\ pc \in {"dm", "mw", "sessions", "signals", "exec"}
    /\ IF TryCatchOn
       THEN /\ w' = Destroyed(w)
            /\ device_manager' =
                 [device_manager EXCEPT !.state = Destroyed(@)]
            /\ caught' = TRUE
            /\ log' = log \cup {"Exception:"}
            /\ ret' = RetAfterCatch(ret)
            /\ pc' = AfterCatch
       ELSE /\ pc' = "terminated"
            /\ UNCHANGED << w, device_manager, caught, log, ret >>
    /\ UNCHANGED << parsed_vars, steps, context, settings, logging,
                    fault_handlers, srd, srd_exits, sessions, handler,
                    sig_received, close_requested, exec_ret >>

\* The closing brace of the try block: w and device_manager go out of scope.
TryEnd ==
    /\ pc = "try_end"
    /\ w' = Destroyed(w)
    /\ device_manager' = [device_manager EXCEPT !.state = Destroyed(@)]
    /\ pc' = AfterTry
    /\ UNCHANGED << parsed_vars, steps, ret, context, log, settings, logging,
                    fault_handlers, srd, srd_exits, sessions, handler,
                    sig_received, close_requested, exec_ret, caught >>

\* srd_exit();
SrdExit ==
    /\ pc = "srd_exit"
    /\ srd_exits' = srd_exits + 1
    /\ pc' = "do_end"
    /\ steps' = Append(steps, "srd_exit")
    /\ UNCHANGED << parsed_vars, ret, context, log, settings, logging,
                    fault_handlers, srd, device_manager, w, sessions,
                    handler, sig_received, close_requested, exec_ret, caught >>

\* } while (false); without the try block w and device_manager go out of
\* scope here.
DoEnd ==
    /\ pc = "do_end"
    /\ w' = Destroyed(w)
    /\ device_manager' = [device_manager EXCEPT !.state = Destroyed(@)]
    /\ pc' = "return"
    /\ UNCHANGED << parsed_vars, steps, ret, context, log, settings, logging,
                    fault_handlers, srd, srd_exits, sessions, handler,
                    sig_received, close_requested, exec_ret, caught >>

\* return ret; main's shared_ptr to the context is released.
Return ==
    /\ pc = "return"
    /\ context' = IF context = "created" THEN "released" ELSE context
    /\ pc' = "ret_main"
    /\ UNCHANGED << parsed_vars, steps, ret, log, settings, logging,
                    fault_handlers, srd, srd_exits, device_manager, w,
                    sessions, handler, sig_received, close_requested,
                    exec_ret, caught >>

\* ------------------------------------------------------------------ claims

\* No subsystem below the option parser exists or was used.
NothingConstructed ==
    /\ settings = "none"
    /\ logging = "none"
    /\ context = "null"
    /\ fault_handlers = {}
    /\ srd = "none"
    /\ srd_exits = 0
    /\ device_manager.state = "none"
    /\ w = "none"
    /\ sessions = << >>
    /\ handler.state = "none"
    /\ exec_ret = << >>

\* main returned through one of its return statements.
Returned == pc \in {"ret_help", "ret_version", "ret_usage", "ret_main"}

\* C1: a run whose argument vector holds the option --help or --version
\* prints usage or version and returns 0, and neither constructs nor touches
\* anything below the option parser: settings, logging, the acquisition
\* context (created or used), the decoder engine, the device manager, the
\* main window, the event loop.
C1_HelpTouchesNothing ==
    (pc \in {"switch", "ret_help", "ret_version"}
       /\ cur \in {"--help", "--version"})
    => /\ NothingConstructed
       /\ ~null_deref
       /\ sr_loglevel = -1
       /\ srd_loglevel = -1
       /\ Returned =>
            /\ ret = 0
            /\ out = (IF cur = "--help" THEN {"stdout:usage"}
                      ELSE {"stdout:version"})

\* C2: when option parsing ends with two or more non-option arguments the
\* run writes "Only one file can be opened." to stderr and returns 1, and
\* nothing below the option parser is constructed or started.
C2_TooManyFilesExit ==
    (npos >= 2 /\ pc \notin {"getopt", "switch", "check_args", "ret_help",
                             "ret_version", "crashed"})
    => /\ pc = "ret_usage"
       /\ ret = 1
       /\ "stderr:Only one file can be opened." \in out
       /\ NothingConstructed

\* C2 witness: a run with two non-options has returned from line 195.
C2_Witness == pc = "ret_usage" /\ npos >= 2 /\ ret = 1

\* C3: -l v with v in 0..5 makes v the level of the acquisition context
\* (and of the decoder engine when compiled in); with v outside 0..5 both
\* levels stay as they were and the run goes on with the next option.
C3_LogLevelApplied ==
    [][ (pc = "switch" /\ c = "l")
        => IF ~LogLevelInvalid(Atoi(optarg))
           THEN /\ sr_loglevel' = Atoi(optarg)
                /\ build.decode => srd_loglevel' = Atoi(optarg)
                /\ pc' = "getopt"
           ELSE /\ sr_loglevel' = sr_loglevel
                /\ srd_loglevel' = srd_loglevel
                /\ pc' = "getopt" ]_vars

\* The calls of op among the session calls made on the main window.
Calls(op) == { i \in DOMAIN sessions : sessions[i].op = op }

C6_TeardownOnlyAfterInit ==
    (srd_exits > 0 \/ pc = "srd_exit") => srd = "ready"

\* C6 witness: the teardown ran on the exception path after a successful
\* init.
C6_Witness == srd_exits = 1 /\ srd = "ready" /\ caught

\* C7: in a run in which srd_init() succeeded srd_exit() has been called
\* exactly once when main returns, after a normal return of the event loop
\* as well as after a caught exception, and never more than once; a caught
\* exception leaves main on its normal path to return ret.
C7_TeardownExactlyOnce ==
    /\ srd_exits <= 1
    /\ (pc = "ret_main" /\ srd = "ready") => srd_exits = 1
    /\ caught => pc \in {"srd_exit", "do_end", "return", "ret_main"}

\* C7 witness: main returned after a caught exception with the decoder
\* torn down once.
C7_Witness ==
    pc = "ret_main" /\ srd = "ready" /\ caught /\ srd_exits = 1

\* C8: --no-scan is recognised like -D: getopt_long returns 'D' for it, it
\* is no help request and no error, and do_scan is false afterwards.
C8_NoScanLikeD ==
    cur = "--no-scan"
    => /\ c = "D"
       /\ pc # "ret_help"
       /\ pc = "getopt" => ~do_scan

\* C10: when the event loop returned r, ret is r from then on and main
\* returns r, whatever the build and whichever optional subsystem failed.
C10_ExitCodeVerbatim ==
    exec_ret # << >> => ret = exec_ret[1]

\* C10 witness: main returned the non-zero value of the event loop in a
\* build with the decoder engine.
C10_Witness ==
    /\ pc = "ret_main"
    /\ exec_ret # << >>
    /\ exec_ret[1] > 0
    /\ ret = exec_ret[1]
    /\ build.decode

\* C11: the log level given with -l is applied to the acquisition context
\* only once the context exists: set_log_level() is never called through
\* the handle while it is null.
C11_ContextCreatedBeforeUse ==
    /\ ~null_deref
    /\ (pc = "getopt" /\ c = "l" /\ ~LogLevelInvalid(Atoi(optarg)))
         => context = "created"

\* The place of each life-cycle step in the required order.
StepRank(step) ==
    CASE step = "parse"          -> 1
      [] step = "settings"       -> 2
      [] step = "logging"        -> 3
      [] step = "context"        -> 4
      [] step = "crash_dump"     -> 5
      [] step = "srd_init"       -> 6
      [] step = "device_manager" -> 7
      [] step = "main_window"    -> 8
      [] step = "sessions"       -> 9
      [] step = "signal_handler" -> 10
      [] step = "event_loop"     -> 11
      [] step = "srd_exit"       -> 12

StepsTaken == { steps[i] : i \in DOMAIN steps }

\* C12: the life-cycle steps are taken in the order parse, settings,
\* logging, context, crash-dump install, decoder init, device manager, main
\* window, sessions, signal handler, event loop, decoder teardown, each at
\* most once; a run that reaches the event loop has taken every step before
\* it that its build and options call for.
C12_LifecycleOrder ==
    /\ \A i, j \in DOMAIN steps : i < j => StepRank(steps[i]) < StepRank(steps[j])
    /\ (pc = "exec" \/ "event_loop" \in StepsTaken)
       => /\ {"parse", "settings", "context", "device_manager",
              "main_window", "sessions"} \subseteq StepsTaken
          /\ do_logging <=> "logging" \in StepsTaken
          /\ StacktraceOn <=> "crash_dump" \in StepsTaken
          /\ build.decode <=> "srd_init" \in StepsTaken
          /\ build.signals <=> "signal_handler" \in StepsTaken
    /\ "srd_exit" \in StepsTaken
       => ("event_loop" \in StepsTaken \/ caught)

\* C12 witness: a run of a build with every optional subsystem took all
\* twelve steps.
C12_Witness ==
    /\ pc = "ret_main"
    /\ Len(steps) = 12
    /\ steps[1] = "parse"
    /\ steps[11] = "event_loop"
    /\ steps[12] = "srd_exit"

C15_PrepareFailureGoesOn ==
    /\ [][ (pc = "signals" /\ handler'.state = "failed")
           => /\ pc' = "exec"
              /\ ret' = ret
              /\ "Could not prepare signal handler." \in log' ]_vars
    /\ [](handler.state = "failed"
          => /\ handler.connected = {}
             /\ ~close_requested
             /\ ret = (IF exec_ret = << >> THEN 0 ELSE exec_ret[1]))

\* C15 witness: the event loop returned after the set-up had failed.
C15_Witness ==
    /\ handler.state = "failed"
    /\ pc = "ret_main"
    /\ exec_ret # << >>
    /\ "Could not prepare signal handler." \in log

\* C16: the device manager and the main window are destroyed before main
\* releases its context handle, the handle is released only when main
\* returns, after the event loop and the decoder teardown, and the handle
\* is valid wherever it is used.
C16_ContextOutlivesUsers ==
    /\ context = "released"
       => /\ device_manager.state # "alive"
          /\ w # "shown"
          /\ pc = "ret_main"
          /\ srd = "ready" => srd_exits = 1
    /\ device_manager.state = "alive" => context = "created"
    /\ ~null_deref

\* C17: each of -d, -D, -i, -I, -c, -s sets its own field, to a value that
\* depends on the option alone, and leaves the other five as they are; so
\* the order of distinct options does not matter and the last occurrence
\* of a repeated option decides.
C17_OptionSetsOwnField ==
    [][ (pc = "switch" /\ c \in {"d", "D", "i", "I", "c", "s"})
        => /\ pc' = "getopt"
           /\ driver' = (IF c = "d" THEN optarg ELSE driver)
           /\ do_scan' = (IF c = "D" THEN FALSE ELSE do_scan)
           /\ open_file' = (IF c = "i" THEN optarg ELSE open_file)
           /\ open_file_format' = (IF c = "I" THEN optarg ELSE open_file_format)
           /\ restore_sessions' = (IF c = "c" THEN FALSE ELSE restore_sessions)
           /\ do_logging' = (IF c = "s" THEN FALSE ELSE do_logging) ]_vars

\* Nothing but -i (and a non-option) has been given so far.
OnlyInputFileGiven ==
    /\ driver = ""
    /\ open_file_format = ""
    /\ restore_sessions
    /\ do_scan
    /\ do_logging
    /\ sr_loglevel = -1
    /\ log = {}
    /\ out = {}

\* C17 witness: four elements were scanned, all of them -i with its
\* argument, and the second argument is the file to open.
C17_Witness ==
    /\ pc = "getopt"
    /\ scanned = 4
    /\ npos = 0
    /\ OnlyInputFileGiven
    /\ c = "i"
    /\ optarg = "b.bin"
    /\ open_file = "b.bin"

\* C18: with exactly one non-option argument that argument is the file to
\* open, whatever -i gave and wherever -i stood, and the run goes on to the
\* settings: it is no usage error.
C18_PositionalReplacesInputFile ==
    [][ (pc = "check_args" /\ npos = 1)
        => /\ open_file' = last_pos
           /\ pc' = "settings"
           /\ ret' = ret
           /\ out' = out ]_vars

\* C18 witness: three elements were scanned, -i with its argument and one
\* non-option, and the non-option is the file to open.
C18_Witness ==
    /\ pc = "settings"
    /\ scanned = 3
    /\ npos = 1
    /\ OnlyInputFileGiven
    /\ last_pos = "b.bin"
    /\ open_file = "b.bin"

\* The element just scanned is an option that matches no entry, or one
\* that takes an argument and is the last element.
OptionError ==
    \/ OptionEntry(cur) = {}
    \/ /\ \E e \in OptionEntry(cur) : e.has_arg
       /\ optarg = ""

\* C19: an unrecognised option and an option without its argument make
\* getopt_long return '?', which is handled like --help: usage is printed
\* and main returns 0 with nothing started.
C19_OptionErrorIsHelp ==
    /\ (pc \in {"switch", "ret_help"} /\ OptionError) => c = "?"
    /\ (c = "?" /\ pc # "switch")
       => /\ pc = "ret_help"
          /\ ret = 0
          /\ "stdout:usage" \in out
          /\ NothingConstructed

\* C19 witness: main returned 0 for -i without its argument.
C19_Witness == pc = "ret_help" /\ c = "?" /\ cur = "-i" /\ ret = 0

\* C20: in a build without the crash-dump handler an exception caught at
\* line 272 leaves ret at its initial value: main returns 0.
C20_CaughtExceptionReturnsZero ==
    caught
    => /\ TryCatchOn
       /\ exec_ret = << >>
       /\ ret = 0

\* C20 witness: main returned 0 after an exception was caught and the main
\* window and the device manager were unwound.
C20_Witness ==
    /\ caught
    /\ pc = "ret_main"
    /\ ret = 0
    /\ w = "destroyed"
    /\ device_manager.state = "destroyed"

Next ==
    \/ GetOptNonOption \/ GetOptFlag \/ GetOptWithArg \/ GetOptMissingArg
    \/ GetOptEnd
    \/ CaseHelp \/ CaseVersion \/ CaseLogLevelInvalid \/ CaseLogLevel
    \/ CaseDriver \/ CaseNoScan \/ CaseInputFile \/ CaseInputFormat
    \/ CaseClean \/ CaseLogToStdout
    \/ CheckArgs
    \/ Settings \/ Logging \/ CtxCreate \/ InstallFaultHandlers \/ SrdInit
    \/ DeviceManagerCtor \/ MainWindowCtor \/ SessionSetup \/ SignalsInstall
    \/ DeliverSignal \/ WindowClose \/ ExecReturn \/ Throw
    \/ TryEnd \/ SrdExit \/ DoEnd \/ Return

Spec == Init /\ [][Next]_vars

\* ---------------------------------------------------------- fault handling

\* What a fault and signal_handler leave alone.
unfaulted_vars ==
    << build, parse_vars, config_vars, ret, context, null_deref, sr_loglevel,
       srd_loglevel, out, log, settings, logging, srd, srd_exits,
       device_manager, w, sessions, handler, sig_received, close_requested,
       exec_ret, caught, steps >>

\* The positions of main at which a fault is drawn.
FaultPoints ==
    { "settings", "logging", "ctx_create", "stacktrace", "srd_init", "dm",
      "mw", "sessions", "signals", "exec", "try_end", "srd_exit", "do_end",
      "return" }

\* Signal s is delivered: signal_handler(s) is entered when it is the
\* handler of s, else the default action ends the process.
Deliver(s) ==
    IF s \in fault_handlers
    THEN /\ pc' = "sh_signal"
         /\ signum' = s
         /\ fault_trace' = Append(fault_trace, [ev |-> "enter", sig |-> s])
    ELSE /\ pc' = "dead"
         /\ signum' = ""
         /\ fault_trace' = Append(fault_trace, [ev |-> "default", sig |-> s])

\* A segmentation fault or an abort happens somewhere in the life cycle.
Fault ==
    /\ pc \in FaultPoints
    /\ fault_trace = << >>
    /\ \E s \in {"SIGSEGV", "SIGABRT"} : Deliver(s)
    /\ UNCHANGED << unfaulted_vars, fault_handlers >>

\* An uncaught exception: std::terminate() calls abort(), which raises
\* SIGABRT.
TerminateAborts ==
    /\ pc = "terminated"
    /\ fault_trace = << >>
    /\ Deliver("SIGABRT")
    /\ UNCHANGED << unfaulted_vars, fault_handlers >>

\* ::signal(signum, SIG_DFL);
HandlerRestoreDefault ==
    /\ pc = "sh_signal"
    /\ fault_handlers' = fault_handlers \ {signum}
    /\ fault_trace' = Append(fault_trace, [ev |-> "SIG_DFL", sig |-> signum])
    /\ pc' = "sh_dump"
    /\ UNCHANGED << unfaulted_vars, signum >>

\* boost::stacktrace::safe_dump_to(stacktrace_filename...);
HandlerDump ==
    /\ pc = "sh_dump"
    /\ fault_trace' = Append(fault_trace, [ev |-> "dump", sig |-> signum])
    /\ pc' = "sh_raise"
    /\ UNCHANGED << unfaulted_vars, signum, fault_handlers >>

\* The signal signal_handler(sig) raises at line 74.
RaisedSignal(sig) == "SIGABRT"

\* ::raise(SIGABRT); the raised signal is delivered in its turn.
HandlerRaise ==
    /\ pc = "sh_raise"
    /\ LET r == RaisedSignal(signum)
           t == Append(fault_trace, [ev |-> "raise", sig |-> r])
       IN IF r \in fault_handlers
          THEN /\ pc' = "sh_signal"
               /\ signum' = r
               /\ fault_trace' = Append(t, [ev |-> "enter", sig |-> r])
          ELSE /\ pc' = "dead"
               /\ signum' = ""
               /\ fault_trace' = Append(t, [ev |-> "default", sig |-> r])
    /\ UNCHANGED << unfaulted_vars, fault_handlers >>

NextFault ==
    \/ Next
    \/ Fault \/ TerminateAborts
    \/ HandlerRestoreDefault \/ HandlerDump \/ HandlerRaise

FaultSpec == Init /\ [][NextFault]_vars

\* What signal_handler is to do for a fault s, up to the death of the
\* process.
ExpectedFaultTrace(s) ==
    << [ev |-> "enter", sig |-> s], [ev |-> "SIG_DFL", sig |-> s],
       [ev |-> "dump", sig |-> s], [ev |-> "raise", sig |-> s],
       [ev |-> "default", sig |-> s] >>

\* C14: when signal_handler fires for s (SIGABRT or SIGSEGV) it restores
\* the default handler of s, then writes the stack trace, once, then raises
\* s again, and the process dies of s: the handler is entered once per
\* fault.
C14_HandlerReraisesSameSignal ==
    (fault_trace # << >> /\ fault_trace[1].ev = "enter")
    => /\ Len(fault_trace) <= 5
       /\ fault_trace =
            SubSeq(ExpectedFaultTrace(fault_trace[1].sig), 1, Len(fault_trace))

\* The Qt event loop delivers the posted close(); main runs on once the
\* event loop has returned.
FairSpec ==
    /\ Spec
    /\ WF_vars(WindowClose)
    /\ WF_vars(TryEnd \/ SrdExit \/ DoEnd \/ Return)

====
